---- MODULE Spec2Model ----
(***************************************************************************)
(* The recording lifecycle of src/components/VideoRecorder.tsx: the        *)
(* VideoRecorder component's React state and refs, the platform objects    *)
(* it drives (media streams, the MediaRecorder, timers, object URLs) and   *)
(* one action per event handler or platform callback.  Time is counted in  *)
(* whole seconds; callbacks that are due run before the clock advances.    *)
(* The ImageAnalyzer widget of the same file and its inference client      *)
(* (analyzeImageWithGemini) are modelled in the one variable `widget`.     *)
(***************************************************************************)
EXTENDS Integers, Sequences, FiniteSets, TLC

\* ---------------------------------------------------------------- bounds
\* Number of "Start Camera" clicks explored.
MaxSessions == 2
\* Recorder stops initiated by the platform (tracks ended, capture error).
MaxPlatformStops == 1
\* Seconds a capture is followed for: an unlimited capture is followed this
\* long, and so is the time after a capture was ended by a timer.
MaxClock == 66

\* Clicks on "Stop Recording" counted per capture.
MaxStopAttempts == 2
\* Length of the texts typed into the duration input (input-space model).
MaxInputLen == 3
\* Largest integer whose decimal text the clamping claim is checked for.
MaxTyped == 999

\* Fragments the platform may hand to ondataavailable per capture
\* (artifact model).
MaxFragments == 3
\* Clicks on "Download" counted per finished capture (artifact model).
MaxDownloads == 2

\* Files selected in the analyzer, and runs of handleAnalyze, explored.
MaxFiles == 2
MaxAnalyses == 2
\* Length, in phrases, of the message of an error the inference call throws.
MaxMessageLen == 1

\* ------------------------------------------------------- program constants
\* parseInt's NaN, kept apart from every integer the input can deliver.
NaN == -999
\* duration * 60 * 1000 ms, in seconds (handleStartRecording).
SecondsPerMinute == 60
\* useState<number>(1)
DefaultDuration == 1
PermissionError == "Could not access camera and microphone. Please check permissions in your browser settings."
NoError == "null"

\* The input is not rendered (or nothing was typed into it yet).
NoInput == << "none" >>

\* Texts the duration <input type="number"> hands to onChange in the
\* lifecycle model: they give the default duration of one minute and NaN.
DurationInputs ==
    { <<>>, <<"0">>, <<"1">>, <<"-","1">>, <<"-","2">>, <<"1",".","5">> }

\* Texts of the input-space model: every text up to MaxInputLen characters.
InputChars == { "-", ".", "0", "1", "2", "7" }
InputTexts == UNION { [ 1..n -> InputChars ] : n \in 0..MaxInputLen }

VARIABLES
    status,            \* useState<RecordingStatus>
    mediaStream,       \* useState<MediaStream|null>: 0 is null, else a stream id
    recordedVideoUrl,  \* useState<string|null>: 0 is null, else a locator id
    error,             \* useState<string|null>
    duration,          \* useState<number>
    typed,             \* e.target.value last handed to the duration onChange
    elapsedTime,       \* useState(0)
    srcObject,         \* videoRef.current.srcObject of the mounted preview, 0 if none
    recState,          \* mediaRecorderRef.current: "null", or its state
    recStream,         \* the stream the current recorder's onstop closed over
    recordedChunks,    \* recordedChunksRef.current
    timerRef,          \* timerRef.current: 0 is null, else a timeout id
    stopwatchRef,      \* stopwatchRef.current: 0 is null, else an interval id
    permPc,            \* position inside the async handleRequestPermission
    requests,          \* getUserMedia constraints asked by the running invocation
    streams,           \* platform: state of each acquired stream, by id
    trackStops,        \* platform: times track.stop() ran on each stream
    locators,          \* platform: object URLs, by id: [blob, valid]
    timeouts,          \* platform: armed setTimeout tasks, [id, left]
    intervals,         \* platform: ids of the running setInterval timers
    intervalsDue,      \* platform: running intervals whose tick is due
    stopQueued,        \* platform: stop events queued for the recorder
    dataDelivered,     \* platform: dataavailable of the queued stop was fired
    sessions,          \* "Start Camera" clicks so far
    platformStops,     \* platform-initiated recorder stops so far
    sinceStart,        \* seconds since the last recorder.start()
    cap,               \* history of the current capture
    widget             \* the ImageAnalyzer: its state, previews and calls

vars == << status, mediaStream, recordedVideoUrl, error, duration, typed,
           elapsedTime,
           srcObject, recState, recStream, recordedChunks, timerRef,
           stopwatchRef, permPc, requests, streams, trackStops, locators,
           timeouts, intervals, intervalsDue, stopQueued,
           dataDelivered, sessions, platformStops, sinceStart, cap, widget >>

\* Everything but the analyzer.
recorderVars ==
    << status, mediaStream, recordedVideoUrl, error, duration, typed,
       elapsedTime, srcObject, recState, recStream, recordedChunks, timerRef,
       stopwatchRef, permPc, requests, streams, trackStops, locators,
       timeouts, intervals, intervalsDue, stopQueued, dataDelivered,
       sessions, platformStops, sinceStart, cap >>

platformTimers == << intervals, intervalsDue >>

reactState ==
    << status, mediaStream, recordedVideoUrl, error, duration, typed, elapsedTime >>

\* ------------------------------------------------------------ pure helpers
Digits == { "0", "1", "2", "3", "4", "5", "6", "7", "8", "9" }

DigitValue(c) ==
    CASE c = "0" -> 0 [] c = "1" -> 1 [] c = "2" -> 2 [] c = "3" -> 3
      [] c = "4" -> 4 [] c = "5" -> 5 [] c = "6" -> 6 [] c = "7" -> 7
      [] c = "8" -> 8 [] c = "9" -> 9

\* The value of the longest prefix of digits of s, continuing from acc.
RECURSIVE DigitsPrefix(_, _)
DigitsPrefix(s, acc) ==
    IF s = <<>> \/ Head(s) \notin Digits
    THEN acc
    ELSE DigitsPrefix(Tail(s), acc * 10 + DigitValue(Head(s)))

\* parseInt(text, 10): optional sign, then digits up to the first other
\* character; NaN when no digit follows the sign.
ParseInt(s) ==
    LET neg  == s # <<>> /\ Head(s) = "-"
        body == IF neg THEN Tail(s) ELSE s
    IN  IF body = <<>> \/ Head(body) \notin Digits
        THEN NaN
        ELSE IF neg THEN 0 - DigitsPrefix(body, 0) ELSE DigitsPrefix(body, 0)

\* Math.max(a, b): NaN if either argument is NaN.
MathMax(a, b) ==
    IF a = NaN \/ b = NaN THEN NaN ELSE IF a >= b THEN a ELSE b

\* Faulty variant: the parsed value is stored without the Math.max floor.
ClampDurationNoFloor(text) == ParseInt(text)

\* onChange of the duration input: setDuration(Math.max(1, parseInt(value, 10)))
ClampDuration(text) == MathMax(1, ParseInt(text))

\* duration > 0, false for NaN
Positive(d) == d # NaN /\ d > 0

\* The preview <video> is rendered only while status is ready or recording.
VideoMounted == status \in { "ready", "recording" }

NoCapture ==
    [ started |-> FALSE, outcome |-> "none", dur |-> DefaultDuration,
      attempts |-> 0, stopCalls |-> 0, finalizes |-> 0, stoppedBy |-> "none",
      delivered |-> <<>>, downloads |-> 0 ]

SetMax(S) == CHOOSE m \in S : \A x \in S : x <= m

\* The id window.setTimeout / window.setInterval hands out next: one no
\* running timer has and no ref still holds.
FreshTimerId ==
    1 + SetMax({ 0, timerRef, stopwatchRef } \cup intervals
               \cup { t.id : t \in timeouts })

\* What a thrown value is: an Error carries a message, anything else does
\* not.  A message is a sequence of phrases, '' the empty one.
NotAnError == [ isError |-> FALSE, message |-> <<>> ]

ErrorWith(m) == [ isError |-> TRUE, message |-> m ]

\* No analysis stands behind what the widget displays.
NoOutcome == [ kind |-> "none", file |-> 0, text |-> "", thrown |-> NotAnError ]

\* The ImageAnalyzer as constructed: useState(null), ('idle'), (''), ('').
\* previews are the object URLs made for the preview image, inflight the
\* pending analyzeImageWithGemini calls, issued the number of generateContent
\* requests made by each run of handleAnalyze, calls the runs of
\* handleAnalyze, last the outcome that set what is displayed.
NoWidget ==
    [ file |-> 0, status |-> "idle", result |-> "", error |-> <<>>,
      previews |-> <<>>, inflight |-> {}, issued |-> <<>>, files |-> 0,
      calls |-> 0, last |-> NoOutcome ]

LiveStreams == { s \in DOMAIN streams : streams[s] = "live" }
ValidLocators == { l \in DOMAIN locators : locators[l].valid }

\* ------------------------------------------------------------------- Init
Init ==
    /\ status = "idle"
    /\ mediaStream = 0
    /\ recordedVideoUrl = 0
    /\ error = NoError
    /\ duration = DefaultDuration
    /\ typed = NoInput
    /\ elapsedTime = 0
    /\ srcObject = 0
    /\ recState = "null"
    /\ recStream = 0
    /\ recordedChunks = <<>>
    /\ timerRef = 0
    /\ stopwatchRef = 0
    /\ permPc = "none"
    /\ requests = <<>>
    /\ streams = <<>>
    /\ trackStops = <<>>
    /\ locators = <<>>
    /\ timeouts = {}
    /\ intervals = {}
    /\ intervalsDue = {}
    /\ stopQueued = 0
    /\ dataDelivered = FALSE
    /\ sessions = 0
    /\ platformStops = 0
    /\ sinceStart = 0
    /\ cap = NoCapture
    /\ widget = NoWidget

\* ------------------------------------------------- handleRequestPermission
\* Click on "Start Camera" (rendered while status is idle): up to the first await.
RequestPermission ==
    /\ status = "idle"
    /\ sessions < MaxSessions
    /\ status' = "permission-pending"
    /\ error' = NoError
    /\ permPc' = "primary"
    /\ requests' = << "environment" >>
    /\ sessions' = sessions + 1
    /\ UNCHANGED << mediaStream, recordedVideoUrl, duration, elapsedTime,
                    typed, srcObject, recState, recStream, recordedChunks, timerRef,
                    stopwatchRef, streams, trackStops, locators, timeouts,
                    platformTimers, stopQueued, dataDelivered, platformStops, widget,
                    sinceStart, cap >>

\* A getUserMedia promise resolves with a new stream: setMediaStream, attach
\* the preview if it is mounted, setStatus('ready').
Granted ==
    LET s == Len(streams) + 1 IN
    /\ streams' = Append(streams, "live")
    /\ trackStops' = Append(trackStops, 0)
    /\ mediaStream' = s
    /\ srcObject' = IF VideoMounted THEN s ELSE srcObject
    /\ status' = "ready"
    /\ permPc' = "none"
    /\ requests' = <<>>
    /\ UNCHANGED << recordedVideoUrl, error, duration, typed, elapsedTime,
                    recState, recStream, recordedChunks, timerRef, stopwatchRef,
                    locators, timeouts, platformTimers,
                    stopQueued, dataDelivered, sessions, platformStops, widget, sinceStart, cap >>

PrimaryGranted ==
    /\ permPc = "primary"
    /\ Granted

\* The facingMode request rejects: the inner catch asks for any camera.
PrimaryRejected ==
    /\ permPc = "primary"
    /\ permPc' = "fallback"
    /\ requests' = Append(requests, "any")
    /\ UNCHANGED << status, mediaStream, recordedVideoUrl, error, duration,
                    elapsedTime, typed, srcObject, recState, recStream,
                    recordedChunks, timerRef, stopwatchRef, streams,
                    trackStops, locators, timeouts, platformTimers,
                    stopQueued, dataDelivered, sessions, platformStops, widget, sinceStart, cap >>

FallbackGranted ==
    /\ permPc = "fallback"
    /\ Granted

\* Faulty variant: the outer catch sets no message.
FailureErrorNone == NoError

\* setError(...) of the outer catch.
FailureError == PermissionError

\* Both requests rejected: the outer catch.
FallbackRejected ==
    /\ permPc = "fallback"
    /\ error' = FailureError
    /\ status' = "idle"
    /\ permPc' = "none"
    /\ requests' = <<>>
    /\ UNCHANGED << mediaStream, recordedVideoUrl, duration, elapsedTime,
                    typed, srcObject, recState, recStream, recordedChunks, timerRef,
                    stopwatchRef, streams, trackStops, locators,
                    timeouts, platformTimers, stopQueued,
                    dataDelivered, sessions, platformStops, widget, sinceStart, cap >>

\* ------------------------------------------------------- duration onChange
\* The input is rendered while status is ready; `texts` are the values tried.
DurationChange(texts) ==
    \E text \in texts :
        /\ status = "ready"
        /\ duration' = ClampDuration(text)
        /\ typed' = text
        /\ UNCHANGED << status, mediaStream, recordedVideoUrl, error,
                        elapsedTime, srcObject, recState, recStream,
                        recordedChunks, timerRef, stopwatchRef, permPc,
                        requests, streams, trackStops, locators, timeouts,
                        platformTimers, stopQueued, dataDelivered, sessions,
                        platformStops, widget, sinceStart, cap >>

SetDuration == DurationChange(DurationInputs)

\* ---------------------------------------------------- handleStopRecording
\* Faulty variant: the guard only checks that a recorder exists.
StopGuardAnyRecorder == recState # "null"

\* The guard of handleStopRecording: a recorder exists and is recording.
StopGuard == recState = "recording"

\* The body of handleStopRecording, run from the timeouts in `armed` by
\* `who` ("manual" for the Stop button, "auto" for the timer callback).
HandleStopRecording(who, armed) ==
    LET tried == IF status = "recording" /\ cap.attempts < MaxStopAttempts
                 THEN cap.attempts + 1 ELSE cap.attempts
    IN
    IF StopGuard
    THEN /\ recState' = "inactive"
         /\ stopQueued' = stopQueued + 1
         /\ dataDelivered' = FALSE
         /\ timeouts' = IF timerRef # 0
                        THEN { t \in armed : t.id # timerRef }
                        ELSE armed
         /\ timerRef' = 0
         /\ cap' = [ cap EXCEPT !.attempts = tried, !.stopCalls = @ + 1,
                                !.stoppedBy = who ]
    ELSE /\ timeouts' = armed
         /\ cap' = [ cap EXCEPT !.attempts = tried ]
         /\ UNCHANGED << recState, stopQueued, dataDelivered, timerRef >>

\* Click on "Stop Recording" (rendered while status is recording).
StopRecording ==
    /\ status = "recording"
    /\ HandleStopRecording("manual", timeouts)
    /\ UNCHANGED << reactState, srcObject, recStream, recordedChunks,
                    stopwatchRef, permPc, requests, streams, trackStops,
                    locators, platformTimers, sessions, platformStops, widget, sinceStart >>

\* ---------------------------------------------------- handleStartRecording
\* Faulty variant: the timeout is armed ten seconds too long.
AutoStopDelayLate(d) == d * SecondsPerMinute + 10

\* The delay of the auto-stop timeout, in seconds: duration * 60 * 1000 ms.
AutoStopDelay(d) == d * SecondsPerMinute

\* Faulty variant: the chunks of the previous capture are kept.
KeepChunks == recordedChunks

\* recordedChunksRef.current = []
ResetChunks == <<>>

\* Click on "Start Recording" (rendered while status is ready); returns at
\* once without a stream.  The MediaRecorder constructor or start() may
\* throw; the state updates made before the throw are kept.
StartRecording ==
    \E outcome \in { "ok", "constructorThrows", "startThrows" } :
        /\ status = "ready"
        /\ mediaStream # 0
        /\ status' = "recording"
        /\ recordedChunks' = ResetChunks
        /\ IF outcome = "constructorThrows"
           THEN UNCHANGED << recState, recStream >>
           ELSE /\ recState' = IF outcome = "ok" THEN "recording" ELSE "inactive"
                /\ recStream' = mediaStream
        /\ IF outcome = "ok"
           THEN /\ elapsedTime' = 0
                /\ stopwatchRef' = FreshTimerId
                /\ intervals' = intervals \cup { FreshTimerId }
                /\ intervalsDue' = intervalsDue
                /\ IF Positive(duration)
                   THEN /\ timeouts' = timeouts \cup
                               { [ id |-> FreshTimerId + 1,
                                   left |-> AutoStopDelay(duration) ] }
                        /\ timerRef' = FreshTimerId + 1
                   ELSE UNCHANGED << timeouts, timerRef >>
                /\ sinceStart' = 0
           ELSE UNCHANGED << elapsedTime, stopwatchRef, platformTimers,
                             timeouts, timerRef, sinceStart >>
        /\ cap' = [ NoCapture EXCEPT !.started = (outcome = "ok"),
                                     !.outcome = outcome, !.dur = duration ]
        /\ typed' = NoInput
        /\ UNCHANGED << mediaStream, recordedVideoUrl, error, duration,
                        srcObject, permPc, requests, streams, trackStops,
                        locators, stopQueued, dataDelivered, sessions, platformStops, widget >>

\* The auto-stop timeout armed by handleStartRecording comes due.
AutoStopFires ==
    \E t \in timeouts :
        /\ t.left = 0
        /\ HandleStopRecording("auto", timeouts \ { t })
        /\ UNCHANGED << reactState, srcObject, recStream, recordedChunks,
                        stopwatchRef, permPc, requests, streams, trackStops,
                        locators, platformTimers, sessions, platformStops, widget, sinceStart >>

\* The stopwatch interval callback: setElapsedTime(prev => prev + 1).
StopwatchTick ==
    \E i \in intervalsDue :
        /\ elapsedTime' = elapsedTime + 1
        /\ intervalsDue' = intervalsDue \ { i }
        /\ UNCHANGED << status, mediaStream, recordedVideoUrl, error, duration,
                        typed, srcObject, recState, recStream, recordedChunks,
                        timerRef, stopwatchRef, permPc, requests, streams,
                        trackStops, locators, timeouts, intervals,
                        stopQueued, dataDelivered, sessions, platformStops, widget, sinceStart, cap >>

\* ------------------------------------------------------ platform callbacks
\* The platform stops the recorder by itself: every track of the stream
\* ended (device removed, permission revoked) or the capture failed.  It
\* queues the same dataavailable and stop events as recorder.stop().
PlatformStop ==
    \E cause \in { "ended", "error" } :
        /\ recState = "recording"
        /\ platformStops < MaxPlatformStops
        /\ recState' = "inactive"
        /\ stopQueued' = stopQueued + 1
        /\ dataDelivered' = FALSE
        /\ streams' = IF cause = "ended"
                      THEN [ streams EXCEPT ![recStream] = "ended" ]
                      ELSE streams
        /\ cap' = [ cap EXCEPT !.stoppedBy = cause ]
        /\ platformStops' = platformStops + 1
        /\ UNCHANGED << reactState, srcObject, recStream, recordedChunks,
                        timerRef, stopwatchRef, permPc, requests, trackStops,
                        locators, timeouts, platformTimers, sessions, widget,
                        sinceStart >>

\* Faulty variant: every fragment is pushed in front of the others.
PushChunkInFront(chunks, data) ==
    IF data.size > 0 THEN << data >> \o chunks ELSE chunks

\* if (event.data.size > 0) recordedChunksRef.current.push(event.data)
PushChunk(chunks, data) ==
    IF data.size > 0 THEN Append(chunks, data) ELSE chunks

\* recorder.ondataavailable, for a platform that hands over at most `most`
\* fragments per capture before the stop event; a fragment is named by the
\* stream it was captured from and its place in the delivery order.
DataAvailableUpTo(most) ==
    \E size \in { 0, 1 } :
        LET data == [ stream |-> recStream, n |-> Len(cap.delivered) + 1,
                      size |-> size ]
        IN
        /\ stopQueued > 0
        /\ Len(cap.delivered) < most
        /\ dataDelivered' = TRUE
        /\ recordedChunks' = PushChunk(recordedChunks, data)
        /\ cap' = [ cap EXCEPT !.delivered = Append(@, data) ]
        /\ UNCHANGED << reactState, srcObject, recState, recStream, timerRef,
                        stopwatchRef, permPc, requests, streams, trackStops,
                        locators, timeouts, platformTimers, stopQueued,
                        sessions, platformStops, widget, sinceStart >>

\* A capture started without a timeslice gets its data as one fragment,
\* when it stops.
DataAvailable == DataAvailableUpTo(1)

\* stopStopwatch: the running intervals left.
StopStopwatch == IF stopwatchRef # 0 THEN intervals \ { stopwatchRef } ELSE intervals

\* Faulty variant: onstop leaves the tracks running.
StopTracksNone(s) == streams

\* mediaStream.getTracks().forEach(track => track.stop()) on the stream the
\* handler closed over.
StopTracks(s) == [ streams EXCEPT ![s] = "stopped" ]

\* new Blob(recordedChunksRef.current, ...): the fragments, concatenated in
\* the order of the array.
NewBlob(chunks) == chunks

\* recorder.onstop, the finalize callback.
OnStop ==
    LET url == Len(locators) + 1 IN
    /\ stopQueued > 0
    /\ dataDelivered
    /\ stopQueued' = stopQueued - 1
    /\ dataDelivered' = FALSE
    /\ locators' = Append(locators, [ blob |-> NewBlob(recordedChunks),
                                      valid |-> TRUE ])
    /\ recordedVideoUrl' = url
    /\ status' = "finished"
    /\ intervals' = StopStopwatch
    /\ intervalsDue' = intervalsDue \cap StopStopwatch
    /\ stopwatchRef' = 0
    /\ streams' = StopTracks(recStream)
    /\ trackStops' = [ trackStops EXCEPT ![recStream] = @ + 1 ]
    /\ mediaStream' = 0
    /\ srcObject' = 0
    /\ cap' = [ cap EXCEPT !.finalizes = @ + 1 ]
    /\ UNCHANGED << error, duration, typed, elapsedTime, recState, recStream,
                    recordedChunks, timerRef, permPc, requests, timeouts,
                    sessions, platformStops, widget, sinceStart >>

\* ------------------------------------------------------ handleNewRecording
\* Faulty variant: the object URL is dropped without being revoked.
RevokeNothing(url) == locators

\* URL.revokeObjectURL(recordedVideoUrl)
RevokeObjectURL(url) == [ locators EXCEPT ![url] = [ blob |-> <<>>, valid |-> FALSE ] ]

\* Faulty variant: "Record Another" goes straight back to the preview.
NewRecordingStatusReady == "ready"

\* setStatus(...) of handleNewRecording.
NewRecordingStatus == "idle"

\* Click on "Record Another" (rendered while finished with a URL).
NewRecording ==
    /\ status = "finished"
    /\ recordedVideoUrl # 0
    /\ locators' = RevokeObjectURL(recordedVideoUrl)
    /\ recordedVideoUrl' = 0
    /\ status' = NewRecordingStatus
    /\ error' = NoError
    /\ elapsedTime' = 0
    /\ cap' = NoCapture
    /\ sinceStart' = 0
    /\ UNCHANGED << mediaStream, duration, typed, srcObject, recState, recStream,
                    recordedChunks, timerRef, stopwatchRef, permPc, requests,
                    streams, trackStops, timeouts, platformTimers, stopQueued,
                    dataDelivered, sessions, platformStops, widget >>

\* ---------------------------------------------------------- handleDownload
\* Faulty variant: the object URL is revoked once the save was triggered.
RevokeAfterDownload(url) == RevokeObjectURL(url)

\* handleDownload touches the object URL only to read it into a.href.
LocatorsAfterDownload(url) == locators

\* Click on "Download" (rendered while finished with a URL); returns at once
\* without a URL.  The anchor it creates is removed again.
Download ==
    /\ status = "finished"
    /\ recordedVideoUrl # 0
    /\ cap.downloads < MaxDownloads
    /\ locators' = LocatorsAfterDownload(recordedVideoUrl)
    /\ cap' = [ cap EXCEPT !.downloads = @ + 1 ]
    /\ UNCHANGED << reactState, srcObject, recState, recStream, recordedChunks,
                    timerRef, stopwatchRef, permPc, requests, streams,
                    trackStops, timeouts, platformTimers, stopQueued,
                    dataDelivered, sessions, platformStops, widget, sinceStart >>

\* ------------------------------------------------------------------- time
\* A callback that is due runs before the clock moves on.
Urgent ==
    \/ \E t \in timeouts : t.left = 0
    \/ intervalsDue # {}
    \/ stopQueued > 0

\* The capture is being followed: it runs, or its timer ended it.
Followed ==
    /\ cap.started
    /\ sinceStart < MaxClock
    /\ intervals # {} \/ cap.stoppedBy = "auto"

\* One second passes.  Without a running timer the passing of time changes
\* nothing in the program.
Tick ==
    /\ ~Urgent
    /\ timeouts # {} \/ Followed
    /\ timeouts' = { [ id |-> t.id, left |-> t.left - 1 ] : t \in timeouts }
    /\ intervalsDue' = intervals
    /\ sinceStart' = IF Followed THEN sinceStart + 1 ELSE sinceStart
    /\ UNCHANGED << reactState, srcObject, recState, recStream, recordedChunks,
                    timerRef, stopwatchRef, permPc, requests, streams,
                    trackStops, locators, intervals, stopQueued,
                    dataDelivered, sessions, platformStops, widget, cap >>

Next ==
    \/ RequestPermission
    \/ PrimaryGranted
    \/ PrimaryRejected
    \/ FallbackGranted
    \/ FallbackRejected
    \/ SetDuration
    \/ StartRecording
    \/ StopRecording
    \/ AutoStopFires
    \/ StopwatchTick
    \/ PlatformStop
    \/ DataAvailable
    \/ OnStop
    \/ NewRecording
    \/ Tick

Spec == Init /\ [][Next]_vars

\* --------------------------------------------------------- artifact model
\* The same handlers with no time passing (captures are stopped by hand or
\* by the platform), a platform that may hand over several fragments, and
\* the Download button.
DataAvailableMany == DataAvailableUpTo(MaxFragments)

NextArtifact ==
    \/ RequestPermission
    \/ PrimaryGranted
    \/ PrimaryRejected
    \/ FallbackGranted
    \/ FallbackRejected
    \/ SetDuration
    \/ StartRecording
    \/ StopRecording
    \/ PlatformStop
    \/ DataAvailableMany
    \/ OnStop
    \/ Download
    \/ NewRecording

SpecArtifact == Init /\ [][NextArtifact]_vars

\* ------------------------------------------------------ input-space model
\* The component right after the first granted request, with the duration
\* input on screen; every text of InputTexts is typed into it.
InitReady ==
    /\ status = "ready"
    /\ mediaStream = 1
    /\ recordedVideoUrl = 0
    /\ error = NoError
    /\ duration = DefaultDuration
    /\ typed = NoInput
    /\ elapsedTime = 0
    /\ srcObject = 0
    /\ recState = "null"
    /\ recStream = 0
    /\ recordedChunks = <<>>
    /\ timerRef = 0
    /\ stopwatchRef = 0
    /\ permPc = "none"
    /\ requests = <<>>
    /\ streams = << "live" >>
    /\ trackStops = << 0 >>
    /\ locators = <<>>
    /\ timeouts = {}
    /\ intervals = {}
    /\ intervalsDue = {}
    /\ stopQueued = 0
    /\ dataDelivered = FALSE
    /\ sessions = 1
    /\ platformStops = 0
    /\ sinceStart = 0
    /\ cap = NoCapture
    /\ widget = NoWidget

EditDuration == DurationChange(InputTexts)

SpecInput == InitReady /\ [][EditDuration]_vars

\* --------------------------------------------------------- analyzer model
\* The ImageAnalyzer component and the inference client it calls.

\* What the inference service may answer, and what a failing call may throw.
ResponseTexts == { "A cat on a chair.", "" }

ApiKeyPhrase == "API key not valid"

Phrases == { ApiKeyPhrase, "quota exceeded" }

Messages == UNION { [ 1..n -> Phrases ] : n \in 0..MaxMessageLen }

Thrown == { NotAnError } \cup { ErrorWith(m) : m \in Messages }

InvalidKeyMessage == << "The configured API key is invalid. Please check your setup." >>

CommunicationPrefix == "An error occurred while communicating with the API: "

UnexpectedMessage == << "An unexpected error occurred during image analysis." >>

UnknownMessage == << "An unknown error occurred." >>

\* message.includes(phrase)
Includes(m, phrase) == \E i \in DOMAIN m : m[i] = phrase

\* Faulty variant: the credential failure is not told apart.
RethrowUnclassified(e) ==
    IF e.isError
    THEN ErrorWith(<< CommunicationPrefix >> \o e.message)
    ELSE ErrorWith(UnexpectedMessage)

\* The catch block of analyzeImageWithGemini: what it throws for what it
\* caught.
Rethrow(e) ==
    IF e.isError
    THEN IF Includes(e.message, ApiKeyPhrase)
         THEN ErrorWith(InvalidKeyMessage)
         ELSE ErrorWith(<< CommunicationPrefix >> \o e.message)
    ELSE ErrorWith(UnexpectedMessage)

\* err instanceof Error ? err.message : 'An unknown error occurred.'
CaughtMessage(err) == IF err.isError THEN err.message ELSE UnknownMessage

\* previewUrl: the render after setFile(f) makes an object URL for f.
CreatePreview(previews, f) == Append(previews, [ file |-> f, valid |-> TRUE ])

\* handleFileChange with a file picked; the file input is rendered only
\* while no file is selected.
FileChange ==
    /\ widget.file = 0
    /\ widget.files < MaxFiles
    /\ LET f == widget.files + 1 IN
        widget' = [ widget EXCEPT !.file = f, !.status = "idle",
                                  !.result = "", !.error = <<>>,
                                  !.files = f,
                                  !.previews = CreatePreview(@, f),
                                  !.last = NoOutcome ]
    /\ UNCHANGED recorderVars

\* Faulty variant: handleAnalyze goes on without a file.
AnalyzeGuardNone(f) == TRUE

\* if (!file) return
AnalyzeGuard(f) == f # 0

\* handleAnalyze up to its await.  The Analyze button is rendered with a
\* file selected and disabled while loading; without a file the handler
\* can only be called directly.
HandleAnalyze ==
    /\ widget.calls < MaxAnalyses
    /\ widget.file # 0 => widget.status # "loading"
    /\ IF AnalyzeGuard(widget.file)
       THEN LET id == Len(widget.issued) + 1 IN
            widget' = [ widget EXCEPT
                          !.status = "loading", !.result = "", !.error = <<>>,
                          !.inflight = @ \cup { [ id |-> id, file |-> widget.file,
                                                  pc |-> "reading" ] },
                          !.issued = Append(@, 0),
                          !.calls = @ + 1,
                          !.last = NoOutcome ]
       ELSE widget' = [ widget EXCEPT !.calls = @ + 1 ]
    /\ UNCHANGED recorderVars

\* fileToBase64 resolves and generateContent is called.
FileReadDone ==
    /\ \E r \in widget.inflight :
         /\ r.pc = "reading"
         /\ widget' = [ widget EXCEPT
                          !.inflight = (@ \ { r }) \cup { [ r EXCEPT !.pc = "calling" ] },
                          !.issued[r.id] = @ + 1 ]
    /\ UNCHANGED recorderVars

\* Faulty variant: a failed request is made once more.
RequestsAfterRetry(issued, id) == [ issued EXCEPT ![id] = @ + 1 ]

\* The catch block makes no further request.
RequestsAfterFailure(issued, id) == issued

\* The call made for r threw e: analyzeImageWithGemini rethrows and the
\* catch of handleAnalyze shows the message.
AnalysisFails(r, e) ==
    widget' = [ widget EXCEPT
                  !.inflight = @ \ { r },
                  !.issued = RequestsAfterFailure(@, r.id),
                  !.error = CaughtMessage(Rethrow(e)),
                  !.status = "error",
                  !.last = [ kind |-> "threw", file |-> r.file, text |-> "",
                             thrown |-> e ] ]

\* reader.onerror: fileToBase64 rejects with the event, which is no Error.
FileReadFails ==
    /\ \E r \in widget.inflight :
         /\ r.pc = "reading"
         /\ AnalysisFails(r, NotAnError)
    /\ UNCHANGED recorderVars

\* generateContent resolves: response.text is shown.
InferenceReturns ==
    /\ \E r \in widget.inflight, s \in ResponseTexts :
         /\ r.pc = "calling"
         /\ widget' = [ widget EXCEPT
                          !.inflight = @ \ { r },
                          !.result = s,
                          !.status = "success",
                          !.last = [ kind |-> "returned", file |-> r.file,
                                     text |-> s, thrown |-> NotAnError ] ]
    /\ UNCHANGED recorderVars

\* generateContent rejects.
InferenceThrows ==
    /\ \E r \in widget.inflight, e \in Thrown :
         /\ r.pc = "calling"
         /\ AnalysisFails(r, e)
    /\ UNCHANGED recorderVars

\* handleClear; the Clear button is rendered with a file selected.
Clear ==
    /\ widget.file # 0
    /\ widget' = [ widget EXCEPT !.file = 0, !.status = "idle",
                                  !.result = "", !.error = <<>>,
                                  !.last = NoOutcome ]
    /\ UNCHANGED recorderVars

\* What the result panel shows (rendered with a file selected): the
\* result in status success, the error in status error.
DisplayedResult ==
    IF widget.file # 0 /\ widget.status = "success" THEN widget.result ELSE ""

DisplayedError ==
    IF widget.file # 0 /\ widget.status = "error" THEN widget.error ELSE <<>>

\* The analyzer next to the recorder's permission dialogue: the two places
\* where the program asks something of the outside.
NextAnalyzer ==
    \/ FileChange
    \/ HandleAnalyze
    \/ FileReadDone
    \/ FileReadFails
    \/ InferenceReturns
    \/ InferenceThrows
    \/ Clear
    \/ RequestPermission
    \/ PrimaryGranted
    \/ PrimaryRejected
    \/ FallbackGranted
    \/ FallbackRejected

SpecAnalyzer == Init /\ [][NextAnalyzer]_vars

\* ================================================================ claims

\* C1: after each NewSession that follows a granted RequestPermission,
\* StartRecording and a finalized StopRecording, however often repeated, no
\* device handle is held (every acquired stream is stopped, the stored
\* stream is null) and no locator is retained (every created locator is
\* revoked, the stored URL is null).
NoLeakAfterNewSession ==
    (status = "idle" /\ Len(locators) > 0) =>
        /\ mediaStream = 0
        /\ recordedVideoUrl = 0
        /\ \A s \in DOMAIN streams : streams[s] = "stopped"
        /\ \A l \in DOMAIN locators : ~locators[l].valid

\* The second NewSession of a run has happened.
SecondNewSessionDone ==
    /\ status = "idle"
    /\ Len(locators) = 2
    /\ Len(streams) = 2
    /\ error = NoError

\* C2: per started capture, whatever the interleaving of manual stops and
\* the auto-stop timer, recorder.stop() is called at most once, at most one
\* stop event is ever queued, the finalize callback runs at most once, and
\* a finished session has exactly one finalize and one live locator.
SingleFinalize ==
    /\ cap.stopCalls <= 1
    /\ stopQueued + cap.finalizes <= 1
    /\ Cardinality(ValidLocators) <= 1
    /\ status = "finished" =>
          /\ cap.finalizes = 1
          /\ ValidLocators = { recordedVideoUrl }

\* A capture that was stopped by hand, asked to stop a second time, and
\* finalized.
StoppedTwiceFinalizedOnce ==
    /\ status = "finished"
    /\ cap.stoppedBy = "manual"
    /\ cap.attempts >= 2
    /\ cap.finalizes = 1

\* C3: an auto-stop callback stops a capture only if that capture was
\* started with a positive duration d, only d*60 seconds after that
\* capture's own start, and only once.
AutoStopOnTime ==
    [][ (recState = "recording" /\ recState' = "inactive"
            /\ cap'.stoppedBy = "auto") =>
        /\ Positive(cap.dur)
        /\ sinceStart = AutoStopDelay(cap.dur)
        /\ cap'.stopCalls = 1 ]_vars

\* C4: typing the decimal text of an integer n into the duration input sets
\* the duration to 1 when n <= 0 and to n when n >= 1.
\* The decimal text a user types for an integer.
DigitChar(d) ==
    CASE d = 0 -> "0" [] d = 1 -> "1" [] d = 2 -> "2" [] d = 3 -> "3"
      [] d = 4 -> "4" [] d = 5 -> "5" [] d = 6 -> "6" [] d = 7 -> "7"
      [] d = 8 -> "8" [] d = 9 -> "9"

RECURSIVE NaturalText(_)
NaturalText(n) ==
    IF n < 10 THEN << DigitChar(n) >>
    ELSE NaturalText(n \div 10) \o << DigitChar(n % 10) >>

IntegerText(n) == IF n < 0 THEN << "-" >> \o NaturalText(0 - n) ELSE NaturalText(n)

DurationClamped ==
    \A n \in (0 - MaxTyped)..MaxTyped :
        typed = IntegerText(n) => duration = IF n <= 0 THEN 1 ELSE n

\* A negative number was typed.
NegativeTyped ==
    /\ typed = << "-", "7" >>
    /\ duration = 1

\* C5: a capture started with duration 1 on a granted stream, never
\* stopped by hand, in a run where the platform ended no capture by itself:
\* 65 seconds after its start it is finished, the elapsed time reads 60
\* within one second and its interval is cleared, a valid locator is
\* stored and the stream is released.
OneMinuteScenario ==
    /\ cap.started
    /\ cap.dur = 1
    /\ cap.stoppedBy \in { "none", "auto" }
    /\ platformStops = 0

PermissionStates ==
    /\ permPc = "primary" =>
          requests = << "environment" >> /\ status = "permission-pending"
    /\ permPc = "fallback" =>
          requests = << "environment", "any" >> /\ status = "permission-pending"
    /\ permPc = "none" => requests = <<>> /\ status # "permission-pending"
    /\ error # NoError =>
          /\ error = PermissionError
          /\ status = "idle"
          /\ mediaStream = 0
          /\ LiveStreams = {}

PermissionSteps ==
    /\ (permPc # "none" /\ Len(streams') > Len(streams)) =>
          /\ status' = "ready"
          /\ mediaStream' = Len(streams')
          /\ streams'[mediaStream'] = "live"
          /\ error' = NoError
    /\ (permPc = "primary" /\ permPc' # "primary" /\ streams' = streams) =>
          permPc' = "fallback"
    /\ (permPc = "fallback" /\ permPc' # "fallback" /\ streams' = streams) =>
          /\ status' = "idle"
          /\ error' = PermissionError
          /\ mediaStream' = 0
          /\ LiveStreams' = {}
    /\ (error # NoError /\ error' = NoError) =>
          status = "idle" /\ status' = "permission-pending"
    /\ (status = "idle" /\ status' = "permission-pending") =>
          error' = NoError /\ permPc' = "primary"

PermissionOutcome == []PermissionStates /\ [][PermissionSteps]_vars

\* Both requests of the second "Start Camera" click were rejected.
BothRequestsRejected ==
    /\ status = "idle"
    /\ error = PermissionError
    /\ sessions = 2

\* C7: the status changes only along idle -> permission-pending,
\* permission-pending -> ready, permission-pending -> idle (with the error
\* set), ready -> recording, recording -> finished and finished -> idle
\* (NewSession, the URL dropped).
StatusEdges ==
    { << "idle", "permission-pending" >>, << "permission-pending", "ready" >>,
      << "permission-pending", "idle" >>, << "ready", "recording" >>,
      << "recording", "finished" >>, << "finished", "idle" >> }

StatusEdgesOnly ==
    [][ status' # status =>
        /\ << status, status' >> \in StatusEdges
        /\ (status = "permission-pending" /\ status' = "idle") => error' # NoError
        /\ (status = "finished" /\ status' = "idle") =>
              recordedVideoUrl # 0 /\ recordedVideoUrl' = 0 ]_vars

\* idle re-entered over the failure path after a complete first session.
IdleAgainByFailure ==
    /\ status = "idle"
    /\ error # NoError
    /\ Len(locators) = 1

\* C8: every failure of the recorder (both device requests rejected, the
\* capture pipeline failing to be created or started, the platform
\* reporting a capture error) leaves an error message set.
NoSilentFailure ==
    ( \/ cap.outcome \in { "constructorThrows", "startThrows" }
      \/ cap.stoppedBy = "error" )
    => error # NoError

\* C9: track.stop() runs at most once on each acquired stream, and only in
\* the finalize callback of the capture of that stream; whenever the status
\* is finished the stream of that session is stopped and the stored handle
\* is null; after a failed acquisition no stream is open.
ReleaseStates ==
    /\ \A s \in DOMAIN streams :
          /\ trackStops[s] <= 1
          /\ streams[s] = "stopped" <=> trackStops[s] = 1
    /\ status = "finished" =>
          /\ mediaStream = 0
          /\ recStream = Len(streams)
          /\ streams[recStream] = "stopped"
    /\ status = "idle" => LiveStreams = {}

ReleaseSteps ==
    \A s \in DOMAIN streams :
        trackStops'[s] # trackStops[s] =>
            /\ s = recStream
            /\ status = "recording" /\ status' = "finished"
            /\ cap'.finalizes = cap.finalizes + 1

ReleasedExactlyOnce == []ReleaseStates /\ [][ReleaseSteps]_vars

\* Two sessions finalized, the second after the platform ended its tracks.
TwoStreamsReleased ==
    /\ status = "finished"
    /\ trackStops = << 1, 1 >>
    /\ cap.stoppedBy = "ended"

\* C10: in every reachable state at most one stream is live, at most one
\* auto-stop timeout is armed and at most one stopwatch interval runs.
AtMostOneOfEach ==
    /\ Cardinality(LiveStreams) <= 1
    /\ Cardinality(timeouts) <= 1
    /\ Cardinality(intervals) <= 1

\* C15: the target duration is a positive integer in every reachable state,
\* whatever the duration input delivers, and every started capture has an
\* auto-stop timeout armed for it.
DurationAlwaysPositive ==
    /\ duration # NaN
    /\ duration >= 1
    /\ (cap.started /\ cap.stoppedBy = "none") =>
          \E t \in timeouts : t.id = timerRef

\* C16: whenever the status is not recording, no auto-stop timeout is armed
\* and no stopwatch interval runs, however the last capture came to stop.
NoTimerOutsideRecording ==
    status # "recording" => timeouts = {} /\ intervals = {}

\* C19: whenever the status is ready or recording, the mounted preview
\* element shows the stored live stream.
PreviewAttached ==
    status \in { "ready", "recording" } =>
        mediaStream # 0 /\ srcObject = mediaStream

\* C17: the blob of a finished session is exactly the non-empty fragments
\* the platform delivered for that session's capture, in delivery order,
\* each once, and none of them from another session's stream.
NonEmpty(data) == data.size > 0

ArtifactIsFragmentsInOrder ==
    status = "finished" =>
        /\ locators[recordedVideoUrl].blob = SelectSeq(cap.delivered, NonEmpty)
        /\ \A i \in DOMAIN cap.delivered :
              cap.delivered[i].stream = recStream /\ cap.delivered[i].n = i

\* The second session finished with two non-empty fragments and an empty
\* one between them.
TwoFragmentsSecondSession ==
    /\ status = "finished"
    /\ Len(streams) = 2
    /\ Len(cap.delivered) = 3
    /\ cap.delivered[2].size = 0
    /\ Len(locators[recordedVideoUrl].blob) = 2

\* C18: a Download leaves the status, the URL, the elapsed time, the error
\* and every locator as they were, so the artifact of a finished session
\* stays valid after any number of Downloads; a Download only happens
\* with a stored URL.
DownloadStates ==
    (status = "finished" /\ cap.downloads > 0) => recordedVideoUrl \in ValidLocators

DownloadSteps ==
    cap'.downloads > cap.downloads =>
        /\ recordedVideoUrl # 0
        /\ UNCHANGED << status, mediaStream, recordedVideoUrl, error, duration,
                        elapsedTime, locators, streams >>

DownloadChangesNothing == []DownloadStates /\ [][DownloadSteps]_vars

\* The artifact was downloaded twice.
DownloadedTwice ==
    /\ status = "finished"
    /\ cap.downloads = 2
    /\ recordedVideoUrl \in ValidLocators

\* An analysis ends in this step.
AnalysisEnds == Cardinality(widget'.inflight) < Cardinality(widget.inflight)

\* C11: Clear resets the widget to idle from every state, with file, result
\* and error cleared, and every preview locator created for a selected file
\* is invalidated when that file is cleared or replaced: a locator that is
\* still valid belongs to the file selected now.
NoPreviewOutlivesItsFile ==
    \A i \in DOMAIN widget.previews :
        widget.previews[i].valid => widget.previews[i].file = widget.file

\* C12: when the inference call of an analysis returns s, the widget is in
\* status success with result s and shows no error (the error is empty if
\* the widget was still loading); a run of handleAnalyze with no file
\* selected changes nothing of the widget and starts no call.
AnalyzeSteps ==
    /\ (AnalysisEnds /\ widget'.last.kind = "returned") =>
          /\ widget'.status = "success"
          /\ widget'.result = widget'.last.text
          /\ widget'.file # 0 => DisplayedResult' = widget'.last.text
          /\ DisplayedError' = <<>>
          /\ widget.status = "loading" => widget'.error = <<>>
          /\ widget'.file = widget.file
    /\ (widget'.calls > widget.calls /\ widget.file = 0) =>
          widget' = [ widget EXCEPT !.calls = @ + 1 ]
    /\ (widget'.calls > widget.calls /\ widget.file # 0) =>
          /\ widget'.status = "loading"
          /\ Cardinality(widget'.inflight) = Cardinality(widget.inflight) + 1

FailureSteps ==
    (AnalysisEnds /\ widget'.last.kind = "threw") =>
        LET e == widget'.last.thrown
            m == widget'.error
        IN  /\ widget'.status = "error"
            /\ widget'.result = widget.result
            /\ (e.isError /\ Includes(e.message, ApiKeyPhrase)) =>
                  m = InvalidKeyMessage
            /\ (e.isError /\ ~Includes(e.message, ApiKeyPhrase)) =>
                  /\ Len(m) = Len(e.message) + 1
                  /\ SubSeq(m, 2, Len(m)) = e.message
                  /\ m # InvalidKeyMessage /\ m # UnexpectedMessage
            /\ ~e.isError => m = UnexpectedMessage

FailuresClassified == [][FailureSteps]_vars

\* The call threw an invalid-key error and the configuration message shows.
InvalidKeyShown ==
    /\ widget.file # 0
    /\ widget.status = "error"
    /\ widget.last.thrown = ErrorWith(<< ApiKeyPhrase >>)
    /\ DisplayedError = InvalidKeyMessage

\* C14: nothing is retried: a run of handleAnalyze makes at most one
\* request to the inference service, and a failure ends the analysis with
\* no further request; a run of handleRequestPermission makes at most two
\* device requests, the second only after the first was rejected, and no
\* request is made without a new click.
NoRetryStates ==
    /\ \A i \in DOMAIN widget.issued : widget.issued[i] <= 1
    /\ Len(widget.issued) <= widget.calls
    /\ \A r \in widget.inflight :
          widget.issued[r.id] = IF r.pc = "calling" THEN 1 ELSE 0
    /\ Len(requests) <= 2
    /\ requests \in { <<>>, << "environment" >>, << "environment", "any" >> }

NoRetrySteps ==
    /\ (AnalysisEnds /\ widget'.last.kind = "threw") =>
          /\ widget'.issued = widget.issued
          /\ widget'.status = "error"
    /\ widget'.issued # widget.issued =>
          \/ /\ widget'.calls = widget.calls + 1
             /\ widget'.issued = Append(widget.issued, 0)
          \/ /\ widget'.calls = widget.calls
             /\ \E i \in DOMAIN widget.issued :
                   /\ widget.issued[i] = 0
                   /\ widget'.issued = [ widget.issued EXCEPT ![i] = 1 ]
    /\ Len(requests') > Len(requests) =>
          \/ requests = <<>> /\ Len(requests') = 1 /\ sessions' = sessions + 1
          \/ Len(requests) = 1 /\ Len(requests') = 2 /\ sessions' = sessions

NothingRetried == []NoRetryStates /\ [][NoRetrySteps]_vars

\* One analysis failed after its one request, and one click on Start Camera
\* ended with both device requests rejected.
FailedOnceEach ==
    /\ widget.status = "error"
    /\ widget.last.kind = "threw"
    /\ widget.issued = << 1 >>
    /\ status = "idle"
    /\ error = PermissionError
    /\ sessions = 1

\* C20: the analyzer never shows the outcome of another file's analysis:
\* whenever status is success or error a file is selected and what is
\* displayed is the outcome of an analysis of that file; after Clear or a
\* new selection the widget stays idle until handleAnalyze runs again.
ShownBelongsToSelectedFile ==
    widget.status \in { "success", "error" } =>
        /\ widget.file # 0
        /\ widget.last.file = widget.file

\* C21: the recorder status and the owned resources agree in every state:
\* in idle and permission-pending no stream is stored and no artifact
\* locator is held; in ready and recording a stream is stored whose tracks
\* are live and were not stopped, and no locator is held; in finished the
\* locator held is valid and no stream is stored.
StatusMatchesResources ==
    /\ status \in { "idle", "permission-pending" } =>
          mediaStream = 0 /\ recordedVideoUrl = 0
    /\ status \in { "ready", "recording" } =>
          /\ mediaStream # 0
          /\ streams[mediaStream] = "live"
          /\ trackStops[mediaStream] = 0
          /\ recordedVideoUrl = 0
    /\ status = "finished" =>
          recordedVideoUrl \in ValidLocators /\ mediaStream = 0

====
